---- MODULE Spec2Model ----
(***************************************************************************)
(* Model of apb/rhcc_registry.go: RHCCRegistry.LoadSpecs, LoadImages,      *)
(* imageToSpec and cleanHTTPURL.                                           *)
(*                                                                         *)
(* Strings are sequences of ASCII codes.  The registry (the environment)   *)
(* answers each HTTP request with a response drawn from a bounded set.     *)
(* A JSON body is represented by its parsed shape (or "malformed"); the    *)
(* conversion of that shape into the Go structs follows encoding/json.     *)
(* base64 is computed sextet by sextet as encoding/base64 does.            *)
(***************************************************************************)
EXTENDS Integers, Sequences, FiniteSets, TLC

VARIABLES
    cfgURL,     \* r.config.URL
    pc,         \* position of the single thread of control
    search,     \* the search response served to LoadImages (<<>> before it)
    imageList,  \* LoadSpecs' imageList: [num, results]
    i,          \* index of the range loop of LoadSpecs (1-based)
    specs,      \* LoadSpecs' specs slice
    cur,        \* result pending in imageToSpec between decode and return
    open,       \* response bodies obtained and not yet closed
    reqs,       \* HTTP requests issued so far, in order
    resp,       \* manifest response served for each processed position
    outcome,    \* what imageToSpec did for each processed position
    log,        \* Info-level log messages, in order
    result,     \* what LoadSpecs returned (<<>> until it returns)
    norm        \* successive results of cleanHTTPURL (SpecURL only)

vars == <<cfgURL, pc, search, imageList, i, specs, cur, open, reqs, resp,
          outcome, log, result, norm>>

----------------------------------------------------------------------------
(* Bounds *)
MaxImages == 2      \* summaries in one search response
MaxN      == 2      \* largest num_results beyond 0
MaxChunks == 2      \* reads needed to drain a response body
MaxTail   == 2      \* characters following a scheme-like prefix

----------------------------------------------------------------------------
(* Strings *)
HTTP  == <<104, 116, 116, 112, 58, 47, 47>>          \* "http://"
HTTPS == <<104, 116, 116, 112, 115, 58, 47, 47>>     \* "https://"

HasPrefix(s, p) == Len(s) >= Len(p) /\ SubSeq(s, 1, Len(p)) = p

cleanHTTPURL_onlyHTTP(url) ==
    IF HasPrefix(url, HTTP) THEN url ELSE HTTP \o url

cleanHTTPURL(url) ==
    IF HasPrefix(url, HTTP) THEN url
    ELSE IF HasPrefix(url, HTTPS) THEN url
    ELSE HTTP \o url

\* "/v2/", "/manifests/latest", "/v1/search?q=" and the query "\"*-apb\""
V2Path       == <<47, 118, 50, 47>>
ManifestPath == <<47, 109, 97, 110, 105, 102, 101, 115, 116, 115, 47,
                  108, 97, 116, 101, 115, 116>>
SearchPath   == <<47, 118, 49, 47, 115, 101, 97, 114, 99, 104, 63, 113, 61>>
Query        == <<34, 42, 45, 97, 112, 98, 34>>

\* errors (Go's nil is NoErr)
NoErr        == "nil"
ErrURL       == "net/url: invalid control character in URL"
ErrTransport == "dial tcp: connection refused"
ErrJSON      == "json: cannot decode body"
ErrB64       == "illegal base64 data"
ErrYAML      == "yaml: did not find expected node content"

\* http.NewRequest parses the URL; url.Parse rejects ASCII control bytes.
NewRequest(url) ==
    IF \E k \in 1..Len(url) : url[k] < 32 \/ url[k] = 127
    THEN ErrURL ELSE NoErr

----------------------------------------------------------------------------
(* encoding/base64, StdEncoding: alphabet A-Z a-z 0-9 + /, padding '='     *)
Sextet(c) ==
    IF c >= 65 /\ c <= 90 THEN c - 65
    ELSE IF c >= 97 /\ c <= 122 THEN c - 71
    ELSE IF c >= 48 /\ c <= 57 THEN c + 4
    ELSE IF c = 43 THEN 62
    ELSE IF c = 47 THEN 63
    ELSE -1

Char(v) ==
    IF v < 26 THEN v + 65
    ELSE IF v < 52 THEN v + 71
    ELSE IF v < 62 THEN v - 4
    ELSE IF v = 62 THEN 43
    ELSE 47

RECURSIVE StdEncode(_)
StdEncode(b) ==
    IF Len(b) = 0 THEN <<>>
    ELSE IF Len(b) = 1 THEN
        <<Char(b[1] \div 4), Char((b[1] % 4) * 16), 61, 61>>
    ELSE IF Len(b) = 2 THEN
        <<Char(b[1] \div 4), Char((b[1] % 4) * 16 + b[2] \div 16),
          Char((b[2] % 16) * 4), 61>>
    ELSE
        <<Char(b[1] \div 4), Char((b[1] % 4) * 16 + b[2] \div 16),
          Char((b[2] % 16) * 4 + b[3] \div 64), Char(b[3] % 64)>>
        \o StdEncode(SubSeq(b, 4, Len(b)))

B64Fail == [err |-> ErrB64, bytes |-> <<>>]

RECURSIVE StdDecodeString(_)
StdDecodeString(s) ==
    IF Len(s) = 0 THEN [err |-> NoErr, bytes |-> <<>>]
    ELSE IF Len(s) < 4 THEN B64Fail
    ELSE
      LET a == Sextet(s[1])  b == Sextet(s[2])
          c == Sextet(s[3])  d == Sextet(s[4])
      IN  IF a < 0 \/ b < 0 THEN B64Fail
          ELSE IF c >= 0 /\ d >= 0 THEN
              LET rest == StdDecodeString(SubSeq(s, 5, Len(s)))
              IN  IF rest.err # NoErr THEN B64Fail
                  ELSE [err |-> NoErr,
                        bytes |-> <<a * 4 + b \div 16,
                                    (b % 16) * 16 + c \div 4,
                                    (c % 4) * 64 + d>> \o rest.bytes]
          ELSE IF Len(s) # 4 THEN B64Fail
          ELSE IF s[3] = 61 /\ s[4] = 61 THEN
              [err |-> NoErr, bytes |-> <<a * 4 + b \div 16>>]
          ELSE IF c >= 0 /\ s[4] = 61 THEN
              [err |-> NoErr, bytes |-> <<a * 4 + b \div 16,
                                          (b % 16) * 16 + c \div 4>>]
          ELSE B64Fail

----------------------------------------------------------------------------
(* yaml.Unmarshal into a Spec, restricted to the documents the registry    *)
(* serves here: "name: <lowercase letters>" is a Spec with that name, a    *)
(* document opening a flow sequence it never closes is a parse error.      *)
NameKey == <<110, 97, 109, 101, 58, 32>>     \* "name: "

YamlUnmarshal(bytes) ==
    IF /\ HasPrefix(bytes, NameKey)
       /\ Len(bytes) > Len(NameKey)
       /\ \A k \in (Len(NameKey) + 1)..Len(bytes) :
              bytes[k] >= 97 /\ bytes[k] <= 122
    THEN [err |-> NoErr,
          spec |-> [Name |-> SubSeq(bytes, Len(NameKey) + 1, Len(bytes))]]
    ELSE [err |-> ErrYAML, spec |-> [Name |-> <<>>]]

----------------------------------------------------------------------------
(* What the registry can serve *)

\* specification documents and the labels that carry them
DocF   == NameKey \o <<102>>                 \* "name: f"
DocFo  == NameKey \o <<102, 111>>            \* "name: fo"
DocFoo == NameKey \o <<102, 111, 111>>       \* "name: foo"
DocBad == <<91>>                             \* "["
Docs   == {DocF, DocFo, DocFoo, DocBad}

BadCharLabel == <<33, 33, 33, 33>>           \* "!!!!"
BadLenLabel  == <<90, 109, 57>>              \* "Zm9"
Labels == {<<>>, BadCharLabel, BadLenLabel} \cup {StdEncode(d) : d \in Docs}

\* one entry of "history": the state of its v1Compatibility string and the
\* com.redhat.apb.spec label inside it
\*   nokey      the entry has no v1Compatibility key (the map yields "")
\*   malformed  the string is not JSON
\*   noconfig   the string is JSON without "config" (or with config null)
\*   config     the string is JSON with a config object
Entry(v1, label) == [v1 |-> v1, label |-> label]
Entries == {Entry("nokey", <<>>), Entry("malformed", <<>>),
            Entry("noconfig", <<>>)}
           \cup {Entry("config", l) : l \in Labels}

\* a manifest response
\*   status  none (no request was sent), transportErr, body
\*   json    ok, malformed (the body is not JSON)
\*   hkind   absent (no history field), null, badtype (not an array of
\*           string maps), array
Manifest(st, js, hk, h) ==
    [status |-> st, json |-> js, hkind |-> hk, history |-> h]
NoManifest == Manifest("none", "ok", "absent", <<>>)
ManifestResponses ==
    {Manifest("transportErr", "ok", "absent", <<>>),
     Manifest("body", "malformed", "absent", <<>>),
     Manifest("body", "ok", "absent", <<>>),
     Manifest("body", "ok", "null", <<>>),
     Manifest("body", "ok", "badtype", <<>>),
     Manifest("body", "ok", "array", <<>>),
     Manifest("body", "ok", "array",
              <<Entry("config", StdEncode(DocF)), Entry("malformed", <<>>)>>)}
    \cup {Manifest("body", "ok", "array", <<e>>) : e \in Entries}

\* image summaries: a JSON null, a plain name, a name with a control byte
Summary(isNil, name) == [isNil |-> isNil, Name |-> name]
FooApb  == <<102, 111, 111, 45, 97, 112, 98>>        \* "foo-apb"
CtlName == <<98, 127>>                               \* "b\x7f"
Summaries == {Summary(TRUE, <<>>), Summary(FALSE, FooApb),
              Summary(FALSE, CtlName)}

RECURSIVE SeqsUpTo(_, _)
SeqsUpTo(S, n) ==
    IF n = 0 THEN {<<>>}
    ELSE LET shorter == SeqsUpTo(S, n - 1)
         IN  shorter \cup {Append(q, x) : q \in shorter, x \in S}

\* a search response
\*   status  transportErr, body
\*   json    ok, malformed, truncated (the read of the body failed midway)
SearchResp(st, js, n, rs) ==
    [status |-> st, json |-> js, num |-> n, results |-> rs]
SearchResponses ==
    {SearchResp("transportErr", "ok", 0, <<>>),
     SearchResp("body", "malformed", 0, <<>>),
     SearchResp("body", "truncated", 0, <<>>)}
    \cup {SearchResp("body", "ok", n, rs) :
              n \in 0..MaxN, rs \in SeqsUpTo(Summaries, MaxImages)}

Reg       == <<114>>                                 \* "r"
ConfigURLs == {Reg, HTTP \o Reg, HTTPS \o Reg, <<114, 127>>}

----------------------------------------------------------------------------
(* Log messages of imageToSpec: a format and its arguments *)
FmtRequest   == "Could not form request. Error: %s. Skipping Image: %s."
FmtTransport == "Could not send request. Error: %s. Skipping Image: %s."
FmtOuterJSON == "Error grabbing JSON body from response: %s. Skipping image [%s]."
FmtNoHistory == "V1 Schema Manifest history does not exist in registry. Skipping image [%s]."
FmtNested    == "Error unmarshalling intermediary JSON response: %s. Skipping image [%s]."
FmtNoConfig  == "Did not find v1 Manifest in image history. Skipping image [%s]."
FmtNoLabel   == "Didn't find encoded Spec label. Assuming image is not APB and skipping [%s]."
FmtBase64    == "Something went wrong decoding spec from label. Skipping image [%s]."
FmtYaml      == "Something went wrong loading decoded spec yaml, %s. Skipping image [%s]."

Info(fmt, err, name) == [fmt |-> fmt, err |-> err, name |-> name]
NoInfo == Info("", NoErr, <<>>)

\* what one call of imageToSpec did: kind is "spec", "skip" or "panic";
\* stage is the return statement taken, cause the err value at that point,
\* info the message logged
Out(kind, stage, cause, spec, info) ==
    [kind |-> kind, stage |-> stage, cause |-> cause, spec |-> spec,
     info |-> info]
Skip(stage, cause, info) == Out("skip", stage, cause, <<>>, info)
Panic(stage) == Out("panic", stage, NoErr, <<>>, NoInfo)
NoOut == Out("none", "", NoErr, <<>>, NoInfo)

\* imageToSpec, lines 139-157: label to Spec
extractSpec_noYamlCheck(name, encodedSpec) ==
    IF Len(encodedSpec) = 0
    THEN Skip("emptyLabel", NoErr, Info(FmtNoLabel, NoErr, name))
    ELSE LET dec == StdDecodeString(encodedSpec)
         IN  IF dec.err # NoErr
             THEN Skip("base64", dec.err, Info(FmtBase64, NoErr, name))
             ELSE Out("spec", "return", NoErr,
                      <<YamlUnmarshal(dec.bytes).spec>>, NoInfo)

extractSpec(name, encodedSpec) ==
    IF Len(encodedSpec) = 0
    THEN Skip("emptyLabel", NoErr, Info(FmtNoLabel, NoErr, name))
    ELSE LET dec == StdDecodeString(encodedSpec)
         IN  IF dec.err # NoErr
             THEN Skip("base64", dec.err, Info(FmtBase64, NoErr, name))
             ELSE LET y == YamlUnmarshal(dec.bytes)
                  IN  IF y.err # NoErr
                      THEN Skip("yaml", y.err, Info(FmtYaml, y.err, name))
                      ELSE Out("spec", "return", NoErr, <<y.spec>>, NoInfo)

\* imageToSpec, lines 117-137: the two JSON decode passes
decodeManifest(name, m) ==
    IF m.json # "ok" \/ m.hkind = "badtype"
    THEN Skip("outerJSON", ErrJSON, Info(FmtOuterJSON, ErrJSON, name))
    ELSE IF m.hkind \in {"absent", "null"}
    THEN Skip("noHistory", NoErr, Info(FmtNoHistory, NoErr, name))
    ELSE IF Len(m.history) = 0
    THEN Panic("index out of range")
    ELSE LET e == m.history[1]
         IN  IF e.v1 \in {"nokey", "malformed"}
             THEN Skip("nestedJSON", ErrJSON, Info(FmtNested, ErrJSON, name))
             ELSE IF e.v1 = "noconfig"
             THEN Skip("noConfig", NoErr, Info(FmtNoConfig, NoErr, name))
             ELSE extractSpec(name, e.label)

\* LoadImages, lines 177-186: ReadAll (its error is dropped) and Unmarshal
LoadImagesResult_swallow(sr) ==
    [err |-> NoErr,
     resp |-> [num |-> sr.num, results |-> sr.results]]

LoadImagesResult(sr) ==
    IF sr.json = "ok"
    THEN [err |-> NoErr, resp |-> [num |-> sr.num, results |-> sr.results]]
    ELSE [err |-> ErrJSON, resp |-> [num |-> 0, results |-> <<>>]]

\* defer resp.Body.Close()
deferClose_forgotten(bodies, id) == bodies

deferClose(bodies, id) == {b \in bodies : b.id # id}

\* specs = append(specs, spec)
appendSpec_front(ss, out) == IF out.kind = "spec" THEN out.spec \o ss ELSE ss

appendSpec(ss, out) == IF out.kind = "spec" THEN ss \o out.spec ELSE ss

NoResult == <<>>
Return(ss, n, err) == <<[specs |-> ss, count |-> n, err |-> err]>>
EmptyList == [num |-> 0, results |-> <<>>]
Body(id, size) == [id |-> id, size |-> size, pos |-> 0]
Request(kind, url, accept) == [kind |-> kind, url |-> url, accept |-> accept]

manifestURL(image) ==
    cleanHTTPURL(cfgURL) \o V2Path \o image.Name \o ManifestPath
searchURL == cleanHTTPURL(cfgURL) \o SearchPath \o Query

\* json.Decoder.Decode reads the body until the first JSON value is complete
\* or found to be malformed; it may leave the rest unread
Read(bodies, id, p) ==
    {IF b.id = id THEN [b EXCEPT !.pos = p] ELSE b : b \in bodies}

----------------------------------------------------------------------------
(* State machine of one LoadSpecs call *)

Init ==
    /\ cfgURL \in ConfigURLs
    /\ pc = "start"
    /\ search = <<>>
    /\ imageList = EmptyList
    /\ i = 1
    /\ specs = <<>>
    /\ cur = NoOut
    /\ open = {}
    /\ reqs = <<>>
    /\ resp = <<>>
    /\ outcome = <<>>
    /\ log = <<>>
    /\ result = NoResult
    /\ norm = <<>>

\* LoadImages: http.NewRequest fails; LoadSpecs returns the error
LoadImagesRequestFails ==
    /\ pc = "start"
    /\ NewRequest(searchURL) # NoErr
    /\ result' = Return(<<>>, 0, NewRequest(searchURL))
    /\ pc' = "done"
    /\ UNCHANGED <<cfgURL, search, imageList, i, specs, cur, open, reqs,
                   resp, outcome, log, norm>>

\* LoadImages: http.DefaultClient.Do
LoadImagesDo ==
    /\ pc = "start"
    /\ NewRequest(searchURL) = NoErr
    /\ \E sr \in SearchResponses, size \in 1..MaxChunks :
        /\ search' = <<sr>>
        /\ reqs' = Append(reqs, Request("search", searchURL, FALSE))
        /\ IF sr.status = "transportErr"
           THEN /\ result' = Return(<<>>, 0, ErrTransport)
                /\ pc' = "done"
                /\ open' = open
           ELSE /\ open' = open \cup {Body(Len(reqs) + 1, size)}
                /\ pc' = "searchRead"
                /\ result' = result
    /\ UNCHANGED <<cfgURL, imageList, i, specs, cur, resp, outcome, log, norm>>

\* LoadImages: ioutil.ReadAll
LoadImagesRead ==
    /\ pc = "searchRead"
    /\ \E b \in open :
        /\ b.id = Len(reqs)
        /\ \E p \in 0..b.size :
            /\ IF search[1].json = "truncated" THEN p < b.size ELSE p = b.size
            /\ open' = Read(open, b.id, p)
    /\ pc' = "searchReturn"
    /\ UNCHANGED <<cfgURL, search, imageList, i, specs, cur, reqs, resp,
                   outcome, log, result, norm>>

\* LoadImages: json.Unmarshal and return; LoadSpecs: the err check
LoadImagesReturn ==
    /\ pc = "searchReturn"
    /\ open' = deferClose(open, Len(reqs))
    /\ LET r == LoadImagesResult(search[1])
       IN  IF r.err # NoErr
           THEN /\ result' = Return(<<>>, 0, r.err)
                /\ pc' = "done"
                /\ imageList' = imageList
           ELSE /\ imageList' = r.resp
                /\ pc' = "loop"
                /\ result' = result
    /\ UNCHANGED <<cfgURL, search, i, specs, cur, reqs, resp, outcome, log,
                   norm>>

InLoop == pc = "loop" /\ i <= Len(imageList.results)

\* imageToSpec: image.Name on a nil *Image
ImageToSpecNil ==
    /\ InLoop
    /\ imageList.results[i].isNil
    /\ outcome' = Append(outcome, Panic("nil pointer dereference"))
    /\ resp' = Append(resp, NoManifest)
    /\ pc' = "panic"
    /\ UNCHANGED <<cfgURL, search, imageList, i, specs, cur, open, reqs, log,
                   result, norm>>

\* imageToSpec: http.NewRequest fails
ImageToSpecRequestFails ==
    /\ InLoop
    /\ LET image == imageList.results[i]
           err == NewRequest(manifestURL(image))
           out == Skip("request", err, Info(FmtRequest, err, image.Name))
       IN  /\ ~image.isNil
           /\ err # NoErr
           /\ log' = Append(log, out.info)
           /\ outcome' = Append(outcome, out)
           /\ specs' = appendSpec(specs, out)
    /\ resp' = Append(resp, NoManifest)
    /\ i' = i + 1
    /\ UNCHANGED <<cfgURL, pc, search, imageList, cur, open, reqs, result,
                   norm>>

\* imageToSpec: http.DefaultClient.Do
ImageToSpecDo ==
    /\ InLoop
    /\ LET image == imageList.results[i]
       IN  /\ ~image.isNil
           /\ NewRequest(manifestURL(image)) = NoErr
           /\ \E m \in ManifestResponses, size \in 1..MaxChunks :
               /\ reqs' = Append(reqs,
                                 Request("manifest", manifestURL(image), TRUE))
               /\ resp' = Append(resp, m)
               /\ IF m.status = "transportErr"
                  THEN LET out == Skip("transport", ErrTransport,
                                       Info(FmtTransport, ErrTransport,
                                            image.Name))
                       IN  /\ log' = Append(log, out.info)
                           /\ outcome' = Append(outcome, out)
                           /\ specs' = appendSpec(specs, out)
                           /\ i' = i + 1
                           /\ UNCHANGED <<pc, open>>
                  ELSE /\ open' = open \cup {Body(Len(reqs) + 1, size)}
                       /\ pc' = "decode"
                       /\ UNCHANGED <<log, outcome, specs, i>>
    /\ UNCHANGED <<cfgURL, search, imageList, cur, result, norm>>

\* imageToSpec: from json.NewDecoder(resp.Body).Decode to the return value
ImageToSpecDecode ==
    /\ pc = "decode"
    /\ \E b \in open :
        /\ b.id = Len(reqs)
        /\ \E p \in 1..b.size : open' = Read(open, b.id, p)
    /\ LET out == decodeManifest(imageList.results[i].Name, resp[i])
       IN  /\ cur' = out
           /\ log' = IF out.kind = "skip" THEN Append(log, out.info) ELSE log
    /\ pc' = "imageReturn"
    /\ UNCHANGED <<cfgURL, search, imageList, i, specs, reqs, resp, outcome,
                   result, norm>>

\* imageToSpec returns (or unwinds): the deferred Close runs; LoadSpecs
\* appends a non-nil spec
ImageToSpecReturn ==
    /\ pc = "imageReturn"
    /\ open' = deferClose(open, Len(reqs))
    /\ outcome' = Append(outcome, cur)
    /\ cur' = NoOut
    /\ IF cur.kind = "panic"
       THEN /\ pc' = "panic"
            /\ UNCHANGED <<specs, i>>
       ELSE /\ specs' = appendSpec(specs, cur)
            /\ i' = i + 1
            /\ pc' = "loop"
    /\ UNCHANGED <<cfgURL, search, imageList, reqs, resp, log, result, norm>>

\* LoadSpecs: return specs, numResults, nil
LoadSpecsReturn ==
    /\ pc = "loop"
    /\ i > Len(imageList.results)
    /\ result' = Return(specs, imageList.num, NoErr)
    /\ pc' = "done"
    /\ UNCHANGED <<cfgURL, search, imageList, i, specs, cur, open, reqs,
                   resp, outcome, log, norm>>

Next ==
    \/ LoadImagesRequestFails
    \/ LoadImagesDo
    \/ LoadImagesRead
    \/ LoadImagesReturn
    \/ ImageToSpecNil
    \/ ImageToSpecRequestFails
    \/ ImageToSpecDo
    \/ ImageToSpecDecode
    \/ ImageToSpecReturn
    \/ LoadSpecsReturn

Spec == Init /\ [][Next]_vars

----------------------------------------------------------------------------
(* cleanHTTPURL applied to a range of strings, and again to its result *)

URLPrefixes ==
    {SubSeq(HTTP, 1, n) : n \in 0..Len(HTTP)}
    \cup {SubSeq(HTTPS, 1, n) : n \in 0..Len(HTTPS)}
    \cup {<<72, 84, 84, 80, 58, 47, 47>>}            \* "HTTP://"
URLInputs ==
    {p \o t : p \in URLPrefixes, t \in SeqsUpTo({120, 47, 104}, MaxTail)}

InitURL ==
    /\ cfgURL \in URLInputs
    /\ pc = "url"
    /\ search = <<>>
    /\ imageList = EmptyList
    /\ i = 1
    /\ specs = <<>>
    /\ cur = NoOut
    /\ open = {}
    /\ reqs = <<>>
    /\ resp = <<>>
    /\ outcome = <<>>
    /\ log = <<>>
    /\ result = NoResult
    /\ norm = <<>>

CleanURL ==
    /\ pc = "url"
    /\ Len(norm) < 2
    /\ norm' = Append(norm, cleanHTTPURL(IF norm = <<>> THEN cfgURL
                                         ELSE norm[Len(norm)]))
    /\ UNCHANGED <<cfgURL, pc, search, imageList, i, specs, cur, open, reqs,
                   resp, outcome, log, result>>

NextURL == CleanURL

SpecURL == InitURL /\ [][NextURL]_vars

----------------------------------------------------------------------------
(* Properties *)

Terminated == pc \in {"done", "panic"}
SearchOK == search # <<>> /\ search[1].status = "body" /\ search[1].json = "ok"
Returned == pc = "done" /\ result # NoResult
ManifestRequests == SelectSeq(reqs, LAMBDA q : q.kind = "manifest")

\* C1: whenever the search succeeds with num_results = N, LoadSpecs returns
\* a nil error and the count N, whatever the images yield.
C1_CountIsNumResults ==
    (SearchOK /\ Terminated) =>
        /\ Returned
        /\ result[1].err = NoErr
        /\ result[1].count = search[1].num

\* C2: when the search fails (request construction, transport, decode),
\* LoadSpecs returns an empty sequence, 0 and the error without issuing a
\* manifest request; no other path returns a non-nil error.
C2_SearchFailure ==
    Terminated =>
        /\ ~SearchOK =>
              /\ Returned
              /\ result[1].specs = <<>>
              /\ result[1].count = 0
              /\ result[1].err # NoErr
              /\ ManifestRequests = <<>>
        /\ (Returned /\ result[1].err # NoErr) => ~SearchOK

C2_Witness ==
    /\ Returned
    /\ search # <<>>
    /\ search[1].json = "malformed"
    /\ result[1].err = ErrJSON

EmptyHistory(m) ==
    m.status = "body" /\ m.json = "ok" /\ m.hkind = "array" /\ m.history = <<>>

\* C3: an image whose manifest history is present but empty yields no Spec
\* and is skipped like any other per-image failure; it does not crash.
C3_EmptyHistorySkipped ==
    \A j \in 1..Len(outcome) :
        EmptyHistory(resp[j]) => outcome[j].kind = "skip"

\* C4: an image without a history field contributes no Spec, and a failure
\* of one image leaves every other image of the search result processed.
C4_Independent ==
    (SearchOK /\ Terminated) =>
        \A j \in 1..Len(search[1].results) :
            /\ j <= Len(outcome)
            /\ (resp[j].status = "body" /\ resp[j].json = "ok"
                /\ resp[j].hkind \in {"absent", "null"}) =>
                   outcome[j].kind = "skip"

\* standard-alphabet base64 text, stated without decoding it
IsStdBase64(s) ==
    /\ Len(s) % 4 = 0
    /\ \E npad \in 0..2 :
        /\ npad < Len(s) \/ Len(s) = 0
        /\ \A k \in 1..Len(s) :
              IF k > Len(s) - npad THEN s[k] = 61 ELSE Sextet(s[k]) >= 0

BothDecodesSucceed(m) ==
    /\ m.status = "body" /\ m.json = "ok" /\ m.hkind = "array"
    /\ Len(m.history) > 0
    /\ m.history[1].v1 \in {"noconfig", "config"}

\* C5: once the fetch and both JSON decodes succeed, a Spec is produced
\* exactly when the label is non-empty base64 of a well-formed document, the
\* Spec is that document, and every other label is a skip with no error.
C5_LabelRoundTrip ==
    \A j \in 1..Len(outcome) :
        BothDecodesSucceed(resp[j]) =>
            LET label == resp[j].history[1].label
                o == outcome[j]
                good == {d \in Docs : YamlUnmarshal(d).err = NoErr
                                      /\ StdEncode(d) = label}
            IN  /\ o.kind = "spec" <=>
                      (label # <<>> /\ IsStdBase64(label) /\ good # {})
                /\ o.kind = "spec" =>
                      \A d \in good : o.spec = <<YamlUnmarshal(d).spec>>
                /\ o.kind # "spec" => o.kind = "skip" /\ o.spec = <<>>
                /\ Returned => result[1].err = NoErr

C5_Witness ==
    \E j \in 1..Len(outcome) :
        /\ BothDecodesSucceed(resp[j])
        /\ resp[j].history[1].label = StdEncode(DocFoo)
        /\ outcome[j].spec = <<[Name |-> <<102, 111, 111>>]>>

RECURSIVE Produced(_, _)
Produced(outs, n) ==
    IF n = 0 THEN <<>> ELSE Produced(outs, n - 1) \o outs[n].spec

\* C6: the returned sequence is the Specs produced for the summaries, in the
\* order of the search response, skipped images removed.
C6_SearchResultOrder ==
    (Returned /\ SearchOK) =>
        /\ Len(outcome) = Len(search[1].results)
        /\ result[1].specs = Produced(outcome, Len(outcome))

C6_Witness ==
    /\ Returned
    /\ Len(outcome) = 2
    /\ outcome[1].spec = <<[Name |-> <<102, 111>>]>>
    /\ outcome[2].spec = <<[Name |-> <<102>>]>>
    /\ Len(result[1].specs) = 2

\* C7: every failure path logs a message of its own that carries the image
\* name and, where the path has an underlying error, that error.
C7_FailuresLogged ==
    \A j \in 1..Len(outcome) :
        outcome[j].kind = "skip" =>
            /\ outcome[j].info.name = imageList.results[j].Name
            /\ outcome[j].cause # NoErr =>
                   outcome[j].info.err = outcome[j].cause
            /\ \A k \in 1..Len(outcome) :
                   (outcome[k].kind = "skip"
                    /\ outcome[k].stage # outcome[j].stage)
                   => outcome[k].info.fmt # outcome[j].info.fmt

Closes(b) == \A c \in open' : c.id # b.id
ReadFailed(b) == pc = "searchReturn" /\ search[1].json = "truncated"

HasScheme(s) ==
    \/ Len(s) >= 7 /\ \A k \in 1..7 : s[k] = HTTP[k]
    \/ Len(s) >= 8 /\ \A k \in 1..8 : s[k] = HTTPS[k]

\* C9: cleanHTTPURL keeps a string starting with "http://" or "https://"
\* and prepends "http://" to any other; cleaning twice equals cleaning once.
C9_CleanHTTPURL ==
    /\ \A n \in 1..Len(norm) :
          LET in == IF n = 1 THEN cfgURL ELSE norm[n - 1]
          IN  /\ HasScheme(in) => norm[n] = in
              /\ ~HasScheme(in) => norm[n] = HTTP \o in
    /\ Len(norm) = 2 => norm[2] = norm[1]

C9_Witness ==
    /\ Len(norm) = 2
    /\ ~HasScheme(cfgURL)
    /\ HasPrefix(cfgURL, <<104, 116, 116, 112, 115, 58, 47>>)
    /\ norm[2] = HTTP \o cfgURL

\* C10: a null entry in the results is handled per image; it never crashes
\* LoadSpecs.
C10_NullSummaryHandled ==
    \A j \in 1..Len(outcome) :
        imageList.results[j].isNil => outcome[j].kind # "panic"

====
